---- MODULE Spec2Model ----
(***************************************************************************)
(* Implied-volatility surface engine of DavidVandenbussche/ImpliedVolSurface. *)
(*                                                                         *)
(* Numbers.  Python floats are modelled in fixed point.  Rates, times (in  *)
(* years), logarithms, discount factors and probabilities are integers in  *)
(* units of 1/10000; d1 and d2 are in units of 1/1000; prices, strikes and *)
(* the spot are in units of 1/1000 of a dollar; a volatility sigma is in   *)
(* units of 1e-6, so that the lower end 1e-6 of the solver's bracket is    *)
(* the integer 1.  A float value is a record: Fin(v), NaN, PosInf, NegInf. *)
(***************************************************************************)
EXTENDS Integers, Naturals, Sequences, FiniteSets, TLC

Unit == 100 * 100

Fin(v) == [k |-> "fin", v |-> v]
NaN == [k |-> "nan", v |-> 0]
PosInf == [k |-> "inf", v |-> 1]
NegInf == [k |-> "inf", v |-> -1]

IsNaN(x) == x.k = "nan"
\* -x in floats.
Neg(x) == [k |-> x.k, v |-> -x.v]
IsFinite(x) == x.k = "fin"

Abs(a) == IF a < 0 THEN -a ELSE a
Sign(a) == IF a > 0 THEN 1 ELSE IF a < 0 THEN -1 ELSE 0
Min(a, b) == IF a <= b THEN a ELSE b
Max(a, b) == IF a >= b THEN a ELSE b

\* floor(a*b/c) for a, b >= 0 and c > 0, without leaving 32 bits (b*c < 2^31).
MulDivNat(a, b, c) == (a \div c) * b + ((a % c) * b) \div c

\* a*b/c rounded toward zero, for a of either sign.
MulDiv(a, b, c) == Sign(a) * MulDivNat(Abs(a), b, c)

RECURSIVE SqrtSearch(_, _, _)
SqrtSearch(n, lo, hi) ==
    IF lo >= hi THEN lo
    ELSE LET mid == (lo + hi + 1) \div 2
         IN  IF mid * mid <= n THEN SqrtSearch(n, mid, hi)
             ELSE SqrtSearch(n, lo, mid - 1)

\* np.sqrt(T) for T >= 0 in units of 1/10000; the result in the same units.
np_sqrt(T) == SqrtSearch(T * Unit, 0, 46340)

\* sum_{j >= 0} z^(2j+1)/(2j+1) from the term z^k on (k odd), zk = z^k.
RECURSIVE AtanhSeries(_, _, _)
AtanhSeries(z, zk, k) ==
    IF zk = 0 THEN 0
    ELSE zk \div k + AtanhSeries(z, MulDivNat(MulDivNat(zk, z, Unit), z, Unit), k + 2)

\* np.log(S / K) for S, K > 0: 2*atanh((S-K)/(S+K)).
np_log_ratio(S, K) ==
    LET hi == Max(S, K)
        lo == Min(S, K)
        z  == ((hi - lo) * Unit) \div (hi + lo)
        l  == 2 * AtanhSeries(z, z, 1)
    IN  IF S >= K THEN l ELSE -l

\* sum_{j >= k} x^j/j! given term = x^(k-1)/(k-1)!.
RECURSIVE ExpSeries(_, _, _)
ExpSeries(x, term, k) ==
    IF term = 0 THEN 0
    ELSE term + ExpSeries(x, MulDiv(MulDiv(term, Abs(x), Unit) * Sign(x), 1, k), k + 1)

\* np.exp(x), x in units of 1/10000.
np_exp(x) == ExpSeries(x, Unit, 1)

\* norm.cdf at 0.0, 0.1, ..., 4.1 in units of 1/10000.
CdfTable ==
    << 5000, 5398, 5793, 6179, 6554, 6915, 7257, 7580, 7881, 8159,
       8413, 8643, 8849, 9032, 9192, 9332, 9452, 9554, 9641, 9713,
       9772, 9821, 9861, 9893, 9918, 9938, 9953, 9965, 9974, 9981,
       9987, 9990, 9993, 9995, 9997, 9998, 9998, 9999, 9999, 10000,
       10000, 10000 >>

\* norm.cdf(d) for d >= 0 in units of 1/1000: the table, linearly interpolated.
CdfNonNeg(d) ==
    IF d >= 4000 THEN Unit
    ELSE LET i == d \div 100
             f == d % 100
         IN  CdfTable[i + 1] + ((CdfTable[i + 2] - CdfTable[i + 1]) * f) \div 100

\* scipy.stats.norm.cdf of a float: cdf(+inf) = 1, cdf(-inf) = 0, cdf(nan) = nan.
norm_cdf(d) ==
    CASE d.k = "nan" -> NaN
      [] d.k = "inf" -> IF d.v > 0 THEN Fin(Unit) ELSE Fin(0)
      [] OTHER -> IF d.v >= 0 THEN Fin(CdfNonNeg(d.v)) ELSE Fin(Unit - CdfNonNeg(-d.v))
(***************************************************************************)
(* Pricer: src/modules/iv_surface_calculator.py, bs_call_price, and        *)
(* src/utils/black_scholes_model.py, BlackScholes.                         *)
(***************************************************************************)

\* Saturation of d1 where sigma*sqrt(T) is below the resolution of the model.
DSat == 8 * 1000

\* d1 and d2 of lines 8-9: drift is r - q.  numpy divides by zero without
\* raising: x/0.0 is +-inf and 0.0/0.0 is nan; np.sqrt of a negative is nan.
d1_d2(S, K, T, drift, sigma) ==
    IF T < 0 THEN << NaN, NaN >>
    ELSE LET sig == sigma \div 100
             w   == MulDivNat(sig, np_sqrt(T), Unit)
             num == np_log_ratio(S, K) + MulDiv(drift, T, Unit)
                      + MulDivNat(MulDivNat(sig, sig, Unit), T, 2 * Unit)
         IN  IF T = 0
             THEN IF num > 0 THEN << PosInf, PosInf >>
                  ELSE IF num < 0 THEN << NegInf, NegInf >>
                  ELSE << NaN, NaN >>
             ELSE IF w = 0
                  THEN << Fin(Sign(num) * DSat), Fin(Sign(num) * DSat) >>
                  ELSE LET d1 == Max(-DSat, Min(DSat, (num * 1000) \div w))
                       IN  << Fin(d1), Fin(d1 - w \div 10) >>

\* a*N1 - b*N2 in floats: nan propagates.
CallValue(a, N1, b, N2) ==
    IF IsNaN(N1) \/ IsNaN(N2) THEN NaN
    ELSE Fin(MulDivNat(a, N1.v, Unit) - MulDivNat(b, N2.v, Unit))

bs_call_price(S, K, T, r, sigma, q) ==
    LET d  == d1_d2(S, K, T, r - q, sigma)
        dq == np_exp(-MulDiv(q, T, Unit))
        dr == np_exp(-MulDiv(r, T, Unit))
    IN  CallValue(MulDivNat(S, dq, Unit), norm_cdf(d[1]),
                  MulDivNat(K, dr, Unit), norm_cdf(d[2]))
\* round(price, 2): to the nearest cent; round(nan, 2) is nan.
round2(x) == IF IsFinite(x) THEN Fin(((x.v + 5) \div 10) * 10) ELSE x

\* BlackScholes.calculate_df: the except clause catches ZeroDivisionError, which
\* a division of numpy floats never raises (it yields inf or nan with a warning),
\* so no ValueError leaves the method.
calculate_df(r, s, k, t, sigma) ==
    [raised |-> "none", d |-> d1_d2(s, k, t, r, sigma)]

\* BlackScholes.option: [raised, value].
option(r, s, k, t, sigma, option_type) ==
    LET df == calculate_df(r, s, k, t, sigma)
        kd == MulDivNat(k, np_exp(-MulDiv(r, t, Unit)), Unit)
    IN  IF df.raised # "none" THEN [raised |-> df.raised, value |-> NaN]
        ELSE IF option_type = "Call"
        THEN [raised |-> "none",
              value |-> round2(CallValue(s, norm_cdf(df.d[1]), kd, norm_cdf(df.d[2])))]
        ELSE IF option_type = "Put"
        THEN [raised |-> "none",
              value |-> round2(CallValue(kd, norm_cdf(Neg(df.d[2])), s, norm_cdf(Neg(df.d[1]))))]
        ELSE [raised |-> "ValueError", value |-> NaN]

(***************************************************************************)
(* IV solver: src/modules/iv_surface_calculator.py, implied_volatility.    *)
(***************************************************************************)

Micro == 1000 * 1000
\* brentq(objective, 1e-6, 5): the bracket, in units of 1e-6.
SigLo == 1
SigHi == 5 * Micro
\* scipy's default iteration budget of brentq.
maxiter == 100
\* scipy's default xtol (2e-12) is below the resolution of the model: the
\* search stops at the resolution at which the pricer reads sigma.
xtol == Micro \div Unit

\* x - p in floats.
FSub(x, p) == IF IsNaN(x) THEN NaN ELSE Fin(x.v - p)

\* objective(sigma) of implied_volatility; c holds the variables it closes over.
objective(c, sigma) == FSub(bs_call_price(c.S, c.K, c.T, c.r, sigma, c.q), c.price)

\* The iteration of brentq, as the bisection Brent's method falls back on:
\* [lo, hi] brackets a sign change, flo = objective(lo) (never 0), i iterations
\* done, log the arguments objective was called with.
RECURSIVE BrentIter(_, _, _, _, _, _)

\* One iteration: objective was called at mid and returned fmid.
BrentStep(c, lo, hi, flo, i, mid, fmid, log) ==
    IF IsNaN(fmid)
    THEN [status |-> "ValueError", root |-> 0, evals |-> log]
    ELSE IF fmid.v = 0
    THEN [status |-> "converged", root |-> mid, evals |-> log]
    ELSE IF Sign(fmid.v) = Sign(flo)
    THEN BrentIter(c, mid, hi, fmid.v, i + 1, log)
    ELSE BrentIter(c, lo, mid, flo, i + 1, log)

BrentMid(c, lo, hi, flo, i, mid, log) ==
    BrentStep(c, lo, hi, flo, i, mid, objective(c, mid), Append(log, mid))

BrentIter(c, lo, hi, flo, i, log) ==
    IF hi - lo <= xtol
    THEN [status |-> "converged", root |-> hi, evals |-> log]
    ELSE IF i >= maxiter
    THEN [status |-> "RuntimeError", root |-> 0, evals |-> log]
    ELSE BrentMid(c, lo, hi, flo, i, (lo + hi) \div 2, log)

\* The checks brentq makes on f(a) = fa and f(b) = fb before it iterates.
BrentBracket(c, a, b, fa, fb, log) ==
    IF IsNaN(fa) \/ IsNaN(fb)
    THEN [status |-> "ValueError", root |-> 0, evals |-> log]
    ELSE IF fa.v = 0 THEN [status |-> "converged", root |-> a, evals |-> log]
    ELSE IF fb.v = 0 THEN [status |-> "converged", root |-> b, evals |-> log]
    ELSE IF Sign(fa.v) = Sign(fb.v)
    THEN [status |-> "ValueError", root |-> 0, evals |-> log]
    ELSE BrentIter(c, a, b, fa.v, 0, log)

\* scipy.optimize.brentq(objective, a, b), c the variables objective closes
\* over: ValueError when f(a) and f(b) have the same
\* sign (or f is nan), RuntimeError when the budget is exhausted.
brentq(c, a, b) ==
    BrentBracket(c, a, b, objective(c, a), objective(c, b), << a, b >>)

\* The variables objective closes over.
Closure(price, S, K, T, r, q) ==
    [price |-> price, S |-> S, K |-> K, T |-> T, r |-> r, q |-> q]

\* try: return brentq(...)  except (ValueError, RuntimeError): return np.nan
CatchBoth(res) ==
    IF res.status = "converged"
    THEN [iv |-> Fin(res.root), raised |-> "none",
          rootfinder |-> TRUE, sigmas |-> res.evals]
    ELSE [iv |-> NaN, raised |-> "none",
          rootfinder |-> TRUE, sigmas |-> res.evals]

\* The same with an except clause that names RuntimeError alone.
CatchRuntimeError(res) ==
    IF res.status = "converged"
    THEN [iv |-> Fin(res.root), raised |-> "none",
          rootfinder |-> TRUE, sigmas |-> res.evals]
    ELSE IF res.status = "RuntimeError"
    THEN [iv |-> NaN, raised |-> "none",
          rootfinder |-> TRUE, sigmas |-> res.evals]
    ELSE [iv |-> NaN, raised |-> res.status,
          rootfinder |-> TRUE, sigmas |-> res.evals]

\* implied_volatility with the early exit written with strict comparisons.
implied_volatility_strict_guard(price, S, K, T, r, q) ==
    IF T < 0 \/ price < 0
    THEN [iv |-> NaN, raised |-> "none", rootfinder |-> FALSE, sigmas |-> << >>]
    ELSE CatchBoth(brentq(Closure(price, S, K, T, r, q), SigLo, SigHi))

\* implied_volatility whose except clause names RuntimeError alone.
implied_volatility_uncaught(price, S, K, T, r, q) ==
    IF T <= 0 \/ price <= 0
    THEN [iv |-> NaN, raised |-> "none", rootfinder |-> FALSE, sigmas |-> << >>]
    ELSE CatchRuntimeError(brentq(Closure(price, S, K, T, r, q), SigLo, SigHi))

\* implied_volatility with the bracket brentq(objective, 1e-6, 0.5).
implied_volatility_narrow_bracket(price, S, K, T, r, q) ==
    IF T <= 0 \/ price <= 0
    THEN [iv |-> NaN, raised |-> "none", rootfinder |-> FALSE, sigmas |-> << >>]
    ELSE CatchBoth(brentq(Closure(price, S, K, T, r, q), SigLo, Micro \div 2))

\* implied_volatility(price, S, K, T, r, q):
\*   iv      the value returned (NaN is NoConvergence),
\*   raised  the exception that leaves the function ("none": it returns),
\*   rootfinder  whether brentq was called,
\*   sigmas  the volatilities the pricer was called with.
implied_volatility(price, S, K, T, r, q) ==
    IF T <= 0 \/ price <= 0
    THEN [iv |-> NaN, raised |-> "none", rootfinder |-> FALSE, sigmas |-> << >>]
    ELSE CatchBoth(brentq(Closure(price, S, K, T, r, q), SigLo, SigHi))

(***************************************************************************)
(* Data frames.  A pandas DataFrame is the sequence of its rows, a row a   *)
(* record of its columns.                                                  *)
(***************************************************************************)

\* df[name] = value, for one row.
WithColumn(row, name, value) ==
    [c \in (DOMAIN row) \cup {name} |-> IF c = name THEN value ELSE row[c]]

\* df.dropna() with how='all' and no subset: a row goes only when every column
\* is missing, which no row of these frames is.
dropna_how_all(df, name) == df

\* df.dropna(subset=[name]).
dropna(df, name) == SelectSeq(df, LAMBDA row : ~IsNaN(row[name]))

\* timeToExpiration = daysToExpiration / 365.
Years(days) == Sign(days) * ((Abs(days) * Unit) \div 365)

\* strike / spot_price.
Moneyness(strike, spot) == MulDivNat(strike, Unit, spot)

\* x * n in floats.
Times(x, n) == IF IsFinite(x) THEN Fin(x.v * n) ELSE x

\* The lambda of df.apply(..., axis=1): the solve of one row.
SolveRow(row, spot, r, q) ==
    implied_volatility(row.mid, spot, row.strike, row.timeToExpiration, r, q)

\* df.apply whose lambda reads df.iloc[0] in place of its row.
ApplyIV_first_row(df, name, spot, r, q) ==
    [i \in 1..Len(df) |-> WithColumn(df[i], name, SolveRow(df[1], spot, r, q).iv)]

\* df[name] = df.apply(lambda row: implied_volatility(...), axis=1)
ApplyIV(df, name, spot, r, q) ==
    [i \in 1..Len(df) |-> WithColumn(df[i], name, SolveRow(df[i], spot, r, q).iv)]

\* df[name] *= 100
Percent(df, name) ==
    [i \in 1..Len(df) |-> WithColumn(df[i], name, Times(df[i][name], 100))]

\* df['moneyness'] = df['strike'] / spot_price
WithMoneyness(df, spot) ==
    [i \in 1..Len(df) |-> WithColumn(df[i], "moneyness", Moneyness(df[i].strike, spot))]

\* compute_iv_surface without its dropna: the rows without a solution stay.
compute_iv_surface_keep_nan(df, spot, r, q) ==
    WithMoneyness(Percent(ApplyIV(df, "impliedVolatility", spot, r, q),
                          "impliedVolatility"), spot)

\* compute_iv_surface without df['impliedVolatility'] *= 100.
compute_iv_surface_fraction(df, spot, r, q) ==
    WithMoneyness(dropna(ApplyIV(df, "impliedVolatility", spot, r, q),
                         "impliedVolatility"), spot)

\* compute_iv_surface(options_df, spot_price, r, dividend_yield): the frame it
\* returns, which is the caller's frame, changed in place.
compute_iv_surface(df, spot, r, q) ==
    WithMoneyness(Percent(dropna(ApplyIV(df, "impliedVolatility", spot, r, q),
                                 "impliedVolatility"),
                          "impliedVolatility"), spot)

\* The values implied_volatility returns, one per row of df.
SolverReturns(df, spot, r, q) ==
    [i \in 1..Len(df) |-> SolveRow(df[i], spot, r, q).iv]

(***************************************************************************)
(* The market-data provider (yfinance) and the inputs of a run.            *)
(***************************************************************************)

\* The most contracts the provider lists in one run.
MaxQuotes == 3

\* spot_history["Close"].iloc[-1], in 1/1000 dollar.
spot_price == 100 * 1000

\* The risk-free rate (1.5%) and the dividend yield of the runs.
risk_free_rate == 150
dividend_yield == 0

Quote(exp, strike, bid, ask) ==
    [exp |-> exp, strike |-> strike * 1000, bid |-> bid * 10, ask |-> ask * 10]

\* The contracts the provider may list, by expiration (days after today) and
\* strike, as ticker.options and option_chain(...).calls order them; bid and
\* ask in cents.
Contracts ==
    << Quote(1, 100, 95, 105),      \* expires tomorrow
       Quote(7, 100, 190, 210),     \* expires exactly 7 days ahead
       Quote(8, 100, 110, 130),     \* first eligible expiration
       Quote(30, 80, 1890, 1910),   \* mid below intrinsic value
       Quote(30, 100, 230, 250),
       Quote(30, 150, 0, 5),        \* no bid, outside 80%..120%
       Quote(60, 90, 1140, 1160),
       Quote(60, 100, 390, 410),
       Quote(60, 120, 40, 60),
       Quote(60, 140, 0, 500) >>    \* no bid, outside 80%..120%

\* The strike filters a user may set: (min_strike_pct, max_strike_pct).
StrikeRanges == { << 80, 120 >>, << 95, 105 >>, << 125, 135 >> }

Pipelines == { "page", "calc", "snapshot", "legacy" }

VARIABLES
    pipeline,     \* the script or function that runs
    pc,           \* where it stands
    chain,        \* the quotes the provider returns, in its order
    strike_pct,   \* << min_strike_pct, max_strike_pct >>
    options_df,   \* the frame the run works on
    solver_in,    \* the rows on which implied_volatility was called
    solver_out,   \* what implied_volatility returned, row by row
    plot_in,      \* X, Y and Z handed to griddata
    stats,        \* the lines the sidebar shows of the surface
    msg,          \* what the run reports: st.error / ValueError text, or ""
    err,          \* the exception that ends the run uncaught, or "none"
    grid,         \* Z_grid, or << >>
    db,           \* the rows of table iv_data
    args,         \* the arguments of a direct call of the pricer or solver
    ret           \* what that call returned

vars == << pipeline, pc, chain, strike_pct, options_df, solver_in, solver_out,
           plot_in, stats, msg, err, grid, db, args, ret >>

runVars == << pipeline, chain, strike_pct, options_df, solver_in, solver_out,
              plot_in, stats, msg, err, grid, db >>

\* Before any call of griddata.
NoPlot == [X |-> << >>, Y |-> << >>, Z |-> << >>]

NoCall == [raised |-> "none", value |-> NaN]
NoSolve == [iv |-> NaN, raised |-> "none", rootfinder |-> FALSE, sigmas |-> << >>]

\* The state of the run variables before any script has started.
Idle ==
    /\ pipeline = "none"
    /\ chain = << >>
    /\ strike_pct = << 0, 0 >>
    /\ options_df = << >>
    /\ solver_in = << >>
    /\ solver_out = << >>
    /\ plot_in = NoPlot
    /\ stats = {}
    /\ msg = ""
    /\ err = "none"
    /\ grid = << >>
    /\ db = << >>

(***************************************************************************)
(* Direct calls of the pricer.                                             *)
(***************************************************************************)

PricerArgs ==
    [fn : {"bs_call_price", "option"}, S : {90 * 1000, 100 * 1000, 110 * 1000},
     K : {100 * 1000}, T : {-100, 0, 821, Unit}, r : {0, 200},
     sigma : {200 * 1000, Micro}, q : {0}, option_type : {"Call", "Put"}]

InitPricer ==
    /\ Idle
    /\ pc = "call"
    /\ args \in PricerArgs
    /\ ret = NoCall

\* One call: bs_call_price(S, K, T, r, sigma, q), or
\* BlackScholes(r, S, K, T, sigma).option(option_type).
Price ==
    /\ pc = "call"
    /\ pc' = "returned"
    /\ ret' = IF args.fn = "option"
              THEN option(args.r, args.S, args.K, args.T, args.sigma, args.option_type)
              ELSE [raised |-> "none",
                    value |-> bs_call_price(args.S, args.K, args.T, args.r, args.sigma, args.q)]
    /\ UNCHANGED << runVars, args >>

NextPricer == Price

SpecPricer == InitPricer /\ [][NextPricer]_vars

(***************************************************************************)
(* Direct calls of the solver.                                             *)
(***************************************************************************)

SolverArgs ==
    [price : {-500, 0, 500, 2400, 19000, 99000}, S : {100 * 1000},
     K : {80 * 1000, 100 * 1000, 120 * 1000}, T : {-27, 0, 219, 821, 1643},
     r : {150}, q : {0, 100}]

InitSolver ==
    /\ Idle
    /\ pc = "call"
    /\ args \in SolverArgs
    /\ ret = NoSolve

\* One call: implied_volatility(price, S, K, T, r, q).
Solve ==
    /\ pc = "call"
    /\ pc' = "returned"
    /\ ret' = implied_volatility(args.price, args.S, args.K, args.T, args.r, args.q)
    /\ UNCHANGED << runVars, args >>

NextSolver == Solve

SpecSolver == InitSolver /\ [][NextSolver]_vars
(***************************************************************************)
(* Round trips: a price of the pricer handed to the solver.                *)
(***************************************************************************)

\* Valid inputs with sigma in [0.01, 3] and T in [0.01, 5].
RoundTripArgs ==
    [S : {100 * 1000}, K : {50 * 1000, 80 * 1000, 100 * 1000, 120 * 1000, 200 * 1000},
     T : {100, 822, Unit, 5 * Unit}, r : {0, 150}, q : {0, 100},
     sigma : {10 * 1000, 200 * 1000, 500 * 1000, Micro, 2 * Micro, 3 * Micro}]

InitRoundTrip ==
    /\ Idle
    /\ pc = "call"
    /\ args \in RoundTripArgs
    /\ ret = [price |-> NaN, solve |-> NoSolve]

\* The solve of a price.
Recovered(price, a) ==
    [price |-> price,
     solve |-> IF IsFinite(price)
               THEN implied_volatility(price.v, a.S, a.K, a.T, a.r, a.q)
               ELSE NoSolve]

\* implied_volatility(bs_call_price(S, K, T, r, sigma, q), S, K, T, r, q)
RoundTrip ==
    /\ pc = "call"
    /\ pc' = "returned"
    /\ ret' = Recovered(bs_call_price(args.S, args.K, args.T, args.r, args.sigma, args.q), args)
    /\ UNCHANGED << runVars, args >>

NextRoundTrip == RoundTrip

SpecRoundTrip == InitRoundTrip /\ [][NextRoundTrip]_vars

(***************************************************************************)
(* Chain collection, shared by the scripts.                                *)
(***************************************************************************)

\* ticker.options: the distinct expirations of the chain, in order.
RECURSIVE Expirations(_)
Expirations(quotes) ==
    IF quotes = << >> THEN << >>
    ELSE LET rest == Expirations(Tail(quotes))
         IN  IF rest # << >> /\ Head(rest) = Head(quotes).exp THEN rest
             ELSE << Head(quotes).exp >> \o rest

\* The same with >=: an expiration exactly 7 days ahead stays.
FutureExpirations_inclusive(expirations) == SelectSeq(expirations, LAMBDA e : e >= 7)

\* [exp for exp in expirations if pd.Timestamp(exp) > today + timedelta(days=7)]
FutureExpirations(expirations) == SelectSeq(expirations, LAMBDA e : e > 7)

\* ticker.option_chain(expiry).calls
Calls(quotes, expiry) == SelectSeq(quotes, LAMBDA c : c.exp = expiry)

\* calls[(calls["bid"] > 0) & (calls["ask"] > 0)]
Liquid(calls) == SelectSeq(calls, LAMBDA c : c.bid > 0 /\ c.ask > 0)

\* The option_data record of one row of calls.
OptionRow(c) ==
    [expirationDate |-> c.exp, strike |-> c.strike, bid |-> c.bid, ask |-> c.ask,
     mid |-> (c.bid + c.ask) \div 2]

\* The loop over exp_dates that fills option_data.
RECURSIVE CollectCalls(_, _)
CollectCalls(quotes, exp_dates) ==
    IF exp_dates = << >> THEN << >>
    ELSE LET calls == Liquid(Calls(quotes, Head(exp_dates)))
         IN  [i \in 1..Len(calls) |-> OptionRow(calls[i])]
                 \o CollectCalls(quotes, Tail(exp_dates))

\* daysToExpiration = (expirationDate - today).dt.days and timeToExpiration.
WithTimes(df) ==
    [i \in 1..Len(df) |->
        WithColumn(WithColumn(df[i], "daysToExpiration", df[i].expirationDate),
                   "timeToExpiration", Years(df[i].expirationDate))]

\* The strike filter: spot*(min_pct/100) <= strike <= spot*(max_pct/100).
StrikeFilter(df, spot, min_pct, max_pct) ==
    SelectSeq(df, LAMBDA row : /\ row.strike * 100 >= spot * min_pct
                               /\ row.strike * 100 <= spot * max_pct)

(***************************************************************************)
(* Direct calls of the builder, on a frame made as the scripts make it.    *)
(***************************************************************************)

\* The most rows of the frame of a direct call.
MaxRows == 2

\* The quotes the rows are made of: expiration (days ahead), strike, bid and
\* ask in cents.
BuilderQuotes ==
    { Quote(30, 100, 990, 1010),    \* mid 10.0 at the money
      Quote(30, 80, 1890, 1910),    \* mid below intrinsic value
      Quote(60, 90, 1140, 1160),
      Quote(60, 120, 40, 60),
      Quote(8, 100, 110, 130),
      Quote(0, 100, 95, 105) }      \* expires today

\* The frames of 1..MaxRows rows with columns expirationDate, strike, bid, ask,
\* mid, daysToExpiration and timeToExpiration.
BuilderFrames ==
    UNION { { WithTimes([i \in 1..n |-> OptionRow(qs[i])]) : qs \in [1..n -> BuilderQuotes] } :
            n \in 1..MaxRows }

BuilderArgs ==
    [df : BuilderFrames, spot : {100 * 1000}, r : {150, 200}, q : {0, 100}]

InitBuilder ==
    /\ Idle
    /\ pc = "call"
    /\ args \in BuilderArgs
    /\ ret = << >>

\* compute_iv_surface(df, spot, r, q)
Build ==
    /\ pc = "call"
    /\ pc' = "returned"
    /\ ret' = compute_iv_surface(args.df, args.spot, args.r, args.q)
    /\ UNCHANGED << runVars, args >>

NextBuilder == Build

SpecBuilder == InitBuilder /\ [][NextBuilder]_vars

(***************************************************************************)
(* Grid interpolation: np.linspace, np.meshgrid, scipy's griddata(...,     *)
(* method='linear'), np.nan_to_num and np.nanmean, as the page, the        *)
(* historical viewer and streamlit_app.py call them.  X, Y are sequences   *)
(* of integers, Z a sequence of floats.                                    *)
(***************************************************************************)

\* The number of nodes on each axis of the grid.  The scripts use 50
\* (np.linspace(lo, hi, 50)); the model a coarser grid of the same shape.
GridRes == 5

Nodes == 0..(GridRes - 1)

SeqMin(s) == CHOOSE m \in {s[i] : i \in DOMAIN s} : \A i \in DOMAIN s : m <= s[i]
SeqMax(s) == CHOOSE m \in {s[i] : i \in DOMAIN s} : \A i \in DOMAIN s : m >= s[i]

\* np.linspace(lo, hi, GridRes)[i]: the end points are lo and hi exactly.
linspace(lo, hi, i) == lo + (i * (hi - lo)) \div (GridRes - 1)

\* Twice the signed area of the triangle a, b, c.
Cross(ax, ay, bx, by, cx, cy) == (bx - ax) * (cy - ay) - (by - ay) * (cx - ax)

\* The point p lies in the closed triangle of the input points t[1], t[2], t[3].
InTriangle(X, Y, t, px, py) ==
    LET c1 == Cross(X[t[1]], Y[t[1]], X[t[2]], Y[t[2]], px, py)
        c2 == Cross(X[t[2]], Y[t[2]], X[t[3]], Y[t[3]], px, py)
        c3 == Cross(X[t[3]], Y[t[3]], X[t[1]], Y[t[1]], px, py)
    IN  (c1 >= 0 /\ c2 >= 0 /\ c3 >= 0) \/ (c1 <= 0 /\ c2 <= 0 /\ c3 <= 0)

\* The triangles a triangulation of the input points may hold: proper triangles
\* with no further input point in them.  Every Delaunay triangle is one.
Simplices(X, Y) ==
    { t \in (DOMAIN X) \X (DOMAIN X) \X (DOMAIN X) :
        /\ t[1] < t[2] /\ t[2] < t[3]
        /\ Cross(X[t[1]], Y[t[1]], X[t[2]], Y[t[2]], X[t[3]], Y[t[3]]) # 0
        /\ \A k \in DOMAIN X :
              (<< X[k], Y[k] >> \notin { << X[t[n]], Y[t[n]] >> : n \in 1..3 })
                  => ~InTriangle(X, Y, t, X[k], Y[k]) }

\* Qhull fails (QhullError) on input that does not span the plane: fewer than
\* three points, or all points on one line.
Flat(X, Y) ==
    \A i, j, k \in DOMAIN X : Cross(X[i], Y[i], X[j], Y[j], X[k], Y[k]) = 0

\* floor(10^n * rem / W) for 0 <= rem < W, digit by digit.
RECURSIVE FracDigits(_, _, _)
FracDigits(rem, W, n) ==
    IF n = 0 THEN 0
    ELSE ((rem * 10) \div W) * 10 ^ (n - 1) + FracDigits((rem * 10) % W, W, n - 1)

\* w / W in units of 1/10000, for 0 <= w <= W.
Frac(w, W) == IF w >= W THEN Unit ELSE FracDigits(w, W, 4)

\* The weights of the barycentric interpolation, applied to Z.
Weighted(Z, t, f1, f2) ==
    IF \E n \in 1..3 : ~IsFinite(Z[t[n]]) THEN NaN
    ELSE Fin(MulDiv(Z[t[1]].v, f1, Unit) + MulDiv(Z[t[2]].v, f2, Unit)
               + MulDiv(Z[t[3]].v, Unit - f1 - f2, Unit))

\* The weights of t[1] and t[2] at p, W twice the area of the triangle t.
BarycentricIn(X, Y, Z, t, px, py, W) ==
    Weighted(Z, t,
             Frac(Abs(Cross(px, py, X[t[2]], Y[t[2]], X[t[3]], Y[t[3]])), W),
             Frac(Abs(Cross(X[t[1]], Y[t[1]], px, py, X[t[3]], Y[t[3]])), W))

\* Linear barycentric interpolation of Z at p in the triangle t.
Barycentric(X, Y, Z, t, px, py) ==
    BarycentricIn(X, Y, Z, t, px, py,
                  Abs(Cross(X[t[1]], Y[t[1]], X[t[2]], Y[t[2]], X[t[3]], Y[t[3]])))

\* The triangles that hold p.
Around(X, Y, simplices, px, py) ==
    { t \in simplices : InTriangle(X, Y, t, px, py) }

\* Where triangulations differ (four points on a circle), tie says which of
\* the candidate values the interpolant takes; nan where no triangle holds p.
Pick(vals, tie) ==
    IF vals = {} \/ NaN \in vals THEN NaN
    ELSE IF tie = "lo"
    THEN CHOOSE v \in vals : \A u \in vals : v.v <= u.v
    ELSE CHOOSE v \in vals : \A u \in vals : v.v >= u.v

\* The value of the linear interpolant at p: nan outside the convex hull.
InterpolateAt(X, Y, Z, simplices, tie, px, py) ==
    Pick({ Barycentric(X, Y, Z, t, px, py) : t \in Around(X, Y, simplices, px, py) }, tie)

\* The interpolant on the meshgrid of linspace(x0, x1, n) and linspace(y0, y1, n).
OnMesh(X, Y, Z, simplices, tie, x0, x1, y0, y1) ==
    [n \in Nodes \X Nodes |->
        InterpolateAt(X, Y, Z, simplices, tie,
                      linspace(x0, x1, n[1]), linspace(y0, y1, n[2]))]

\* griddata that falls back on a grid of nan where Qhull cannot triangulate.
griddata_no_error(X, Y, Z, tie) ==
    IF Flat(X, Y) THEN [raised |-> "none", Z_grid |-> [n \in Nodes \X Nodes |-> NaN]]
    ELSE [raised |-> "none",
          Z_grid |-> OnMesh(X, Y, Z, Simplices(X, Y), tie,
                            SeqMin(X), SeqMax(X), SeqMin(Y), SeqMax(Y))]

\* griddata((X, Y), Z, (T_grid, Y_grid), method='linear') on the meshgrid of
\* linspace(X.min(), X.max(), n) and linspace(Y.min(), Y.max(), n).
griddata(X, Y, Z, tie) ==
    IF Flat(X, Y) THEN [raised |-> "QhullError", Z_grid |-> << >>]
    ELSE [raised |-> "none",
          Z_grid |-> OnMesh(X, Y, Z, Simplices(X, Y), tie,
                            SeqMin(X), SeqMax(X), SeqMin(Y), SeqMax(Y))]

\* np.nanmean(Z): the mean of the entries that are not nan.
RECURSIVE SumFinite(_)
SumFinite(Z) ==
    IF Z = << >> THEN 0
    ELSE (IF IsNaN(Head(Z)) THEN 0 ELSE Head(Z).v) + SumFinite(Tail(Z))

MeanOf(Z, present) ==
    IF present = << >> THEN NaN ELSE Fin(SumFinite(Z) \div Len(present))

nanmean(Z) == MeanOf(Z, SelectSeq(Z, LAMBDA z : ~IsNaN(z)))

\* np.nan_to_num(Z_grid) with its default, nan=0.0.
nan_to_num_default(Z_grid, fill) ==
    [n \in DOMAIN Z_grid |-> IF IsNaN(Z_grid[n]) THEN Fin(0) ELSE Z_grid[n]]

\* np.nan_to_num(Z_grid, nan=fill)
nan_to_num(Z_grid, fill) ==
    [n \in DOMAIN Z_grid |-> IF IsNaN(Z_grid[n]) THEN fill ELSE Z_grid[n]]

\* Z_grid = np.nan_to_num(Z_grid, nan=np.nanmean(Z)), reached when griddata
\* has returned.
Filled(g, Z) ==
    IF g.raised # "none" THEN g
    ELSE [raised |-> "none", Z_grid |-> nan_to_num(g.Z_grid, nanmean(Z))]

\* The interpolation block of the scripts: lines 124-130 of the page.
InterpolateSurface(X, Y, Z, tie) == Filled(griddata(X, Y, Z, tie), Z)

\* df[name].values
Column(df, name) == [i \in 1..Len(df) |-> df[i][name]]

(***************************************************************************)
(* The other builders and the store.                                       *)
(***************************************************************************)

\* calculate_iv_surface, lines 95-111: the same steps as compute_iv_surface,
\* written inline, on the column implied_volatility.
calc_iv_columns(df, spot, r, q) ==
    WithMoneyness(Percent(dropna(ApplyIV(df, "implied_volatility", spot, r, q),
                                 "implied_volatility"),
                          "implied_volatility"), spot)

\* streamlit_app.py, lines 50-53: the columns added to the calls of one
\* expiration.  Timestamp.today() is not normalized there, so .days counts one
\* day less than the calendar distance.
LegacyRow(c, expiry) ==
    [contractSymbol |-> << c.exp, c.strike >>, strike |-> c.strike,
     bid |-> c.bid, ask |-> c.ask, mid |-> (c.bid + c.ask) \div 2,
     timeToExpiration |-> Years(expiry - 1),
     moneyness |-> Moneyness(c.strike, spot_price)]

\* streamlit_app.py, lines 45-53, for one expiration.
LegacyCalls(calls, expiry) ==
    [i \in 1..Len(calls) |-> LegacyRow(calls[i], expiry)]

\* expirations[:10]
FirstTen(expirations) ==
    SubSeq(expirations, 1, Min(10, Len(expirations)))

\* The rows the loop of lines 44-57 hands to the solver, over the expirations.
RECURSIVE LegacyRows(_, _)
LegacyRows(quotes, expirations) ==
    IF expirations = << >> THEN << >>
    ELSE LegacyCalls(Liquid(Calls(quotes, Head(expirations))), Head(expirations))
             \o LegacyRows(quotes, Tail(expirations))

\* calls[["strike", "timeToExpiration", "impliedVolatility", "moneyness"]]
LegacyColumns(df) ==
    [i \in 1..Len(df) |->
        [strike |-> df[i].strike, timeToExpiration |-> df[i].timeToExpiration,
         impliedVolatility |-> df[i].impliedVolatility, moneyness |-> df[i].moneyness]]

\* streamlit_app.py, lines 55-64: the solves, dropna and the concat.
legacy_iv_data(rows, spot, r) ==
    LegacyColumns(dropna(ApplyIV(rows, "impliedVolatility", spot, r, 0), "impliedVolatility"))

\* df['ticker'] = ticker; df['timestamp'] = timestamp (db_utils.py, lines 10-11).
Stamped(df, ticker, timestamp) ==
    [i \in 1..Len(df) |->
        WithColumn(WithColumn(df[i], "ticker", ticker), "timestamp", timestamp)]

\* A datetime64 value as SQLite keeps it and read_sql_query returns it: text.
Text(value) == << "text", value >>

\* The rows df.to_sql(..., index=False) writes: the columns of df, with
\* expirationDate as text.
to_sql(df) ==
    [i \in 1..Len(df) |->
        [c \in DOMAIN df[i] |-> IF c = "expirationDate" THEN Text(df[i][c]) ELSE df[i][c]]]

\* The save with if_exists='replace': the table holds the last frame only.
save_iv_surface_snapshot_replace(table, df) == to_sql(df)

\* df.to_sql(table_name, conn, if_exists='append'): the table after the save
\* of the frame df, which carries its ticker and timestamp columns.
save_iv_surface_snapshot(table, df) == table \o to_sql(df)

\* SELECT * FROM iv_data WHERE ticker = ? AND timestamp = ?
load_iv_surface_snapshot(table, ticker, timestamp) ==
    SelectSeq(table, LAMBDA row : row.ticker = ticker /\ row.timestamp = timestamp)

(***************************************************************************)
(* Direct calls of the store: saves and loads of surfaces in table iv_data.*)
(***************************************************************************)

\* The most rows the table holds in a run of saves.
MaxStored == 3

Tickers == {"SPY", "AAPL"}
Timestamps == {"t1", "t2"}

\* The points of the surfaces that are saved.
SurfaceRows ==
    { [expirationDate |-> 30, strike |-> 100 * 1000, timeToExpiration |-> 821,
       impliedVolatility |-> Fin(20 * Micro), moneyness |-> Unit],
      [expirationDate |-> 60, strike |-> 120 * 1000, timeToExpiration |-> 1643,
       impliedVolatility |-> Fin(25 * Micro), moneyness |-> 12000] }

\* The surfaces that are saved: up to two points, or none (a surface on which
\* no solve converged).
SurfaceFrames ==
    { << >> } \cup { << p >> : p \in SurfaceRows }
              \cup { << p1, p2 >> : p1 \in SurfaceRows, p2 \in SurfaceRows }

InitStore ==
    /\ Idle
    /\ pc = "call"
    /\ args = [fn |-> "none", ticker |-> "", timestamp |-> "", df |-> << >>]
    /\ ret = << >>

\* save_iv_surface_snapshot(df, ticker, timestamp); args.df is the caller's
\* frame after the call.
Save ==
    \E df \in SurfaceFrames, ticker \in Tickers, timestamp \in Timestamps :
        /\ Len(db) + Len(df) <= MaxStored
        /\ args' = [fn |-> "save", ticker |-> ticker, timestamp |-> timestamp,
                    df |-> Stamped(df, ticker, timestamp)]
        /\ db' = save_iv_surface_snapshot(db, args'.df)
        /\ pc' = "saved"
        /\ UNCHANGED << pipeline, chain, strike_pct, options_df, solver_in, solver_out,
                        plot_in, stats, msg, err, grid, ret >>

\* load_iv_surface_snapshot(ticker, timestamp)
Load ==
    \E ticker \in Tickers, timestamp \in Timestamps :
        /\ args' = [fn |-> "load", ticker |-> ticker, timestamp |-> timestamp, df |-> << >>]
        /\ ret' = load_iv_surface_snapshot(db, ticker, timestamp)
        /\ pc' = "loaded"
        /\ UNCHANGED runVars

NextStore == Save \/ Load

SpecStore == InitStore /\ [][NextStore]_vars

(***************************************************************************)
(* The runs.  One run is one script (or one call of calculate_iv_surface)  *)
(* on the chain the provider returns.                                      *)
(***************************************************************************)

\* The chain of a run: at most MaxQuotes of the contracts, in the provider's order.
Chains ==
    { SelectSeq(Contracts, LAMBDA c : c \in picked) :
        picked \in { P \in SUBSET { Contracts[i] : i \in DOMAIN Contracts } :
                        Cardinality(P) <= MaxQuotes } }

Init ==
    /\ pipeline \in Pipelines
    /\ pc = "start"
    /\ chain \in Chains
    /\ strike_pct \in (IF pipeline \in {"page", "calc"} THEN StrikeRanges ELSE { << 0, 0 >> })
    /\ options_df = << >>
    /\ solver_in = << >>
    /\ solver_out = << >>
    /\ plot_in = NoPlot
    /\ stats = {}
    /\ msg = ""
    /\ err = "none"
    /\ grid = << >>
    /\ db = << >>
    /\ args = [fn |-> "none"]
    /\ ret = NoCall

\* st.error(text); st.stop()
Stop(text) ==
    /\ pc' = "stopped"
    /\ msg' = text
    /\ UNCHANGED err

\* raise ValueError(text)
Raise(text) ==
    /\ pc' = "raised"
    /\ err' = "ValueError"
    /\ msg' = text

\* The interactive page, lines 63-107: expirations, collection, strike filter.
PageNormalize ==
    /\ pipeline = "page" /\ pc = "start"
    /\ LET exp_dates   == FutureExpirations(Expirations(chain))
           option_data == CollectCalls(chain, exp_dates)
           filtered    == StrikeFilter(WithTimes(option_data), spot_price,
                                       strike_pct[1], strike_pct[2])
       IN  IF exp_dates = << >>
           THEN /\ Stop("No valid expiration dates found (more than 7 days ahead).")
                /\ UNCHANGED options_df
           ELSE IF option_data = << >>
           THEN /\ Stop("No valid option data found after filtering bids/asks.")
                /\ UNCHANGED options_df
           ELSE IF filtered = << >>
           THEN /\ Stop("No options left after applying strike price filter. Adjust range.")
                /\ options_df' = filtered
           ELSE /\ pc' = "normalized"
                /\ options_df' = filtered
                /\ UNCHANGED << msg, err >>
    /\ UNCHANGED << pipeline, chain, strike_pct, solver_in, solver_out, plot_in,
                    stats, grid, db, args, ret >>

\* The page without the check of lines 113-115.
PageBuild_unchecked ==
    /\ pipeline = "page" /\ pc = "normalized"
    /\ solver_in' = options_df
    /\ solver_out' = SolverReturns(options_df, spot_price, risk_free_rate, dividend_yield)
    /\ options_df' = compute_iv_surface(options_df, spot_price, risk_free_rate, dividend_yield)
    /\ pc' = "built"
    /\ UNCHANGED << pipeline, chain, strike_pct, plot_in, stats, msg, err, grid,
                    db, args, ret >>

\* The page, lines 109-115: compute_iv_surface and the check of its result.
PageBuild ==
    /\ pipeline = "page" /\ pc = "normalized"
    /\ solver_in' = options_df
    /\ solver_out' = SolverReturns(options_df, spot_price, risk_free_rate, dividend_yield)
    /\ options_df' = compute_iv_surface(options_df, spot_price, risk_free_rate, dividend_yield)
    /\ IF options_df' = << >>
       THEN Stop("No valid IVs computed. Try adjusting filter parameters.")
       ELSE /\ pc' = "built"
            /\ UNCHANGED << msg, err >>
    /\ UNCHANGED << pipeline, chain, strike_pct, plot_in, stats, grid, db, args, ret >>

\* The end of a plotting script: griddata raised, or the figure is shown.
ShowSurface(g) ==
    IF g.raised # "none"
    THEN /\ pc' = "crashed"
         /\ err' = g.raised
         /\ UNCHANGED grid
    ELSE /\ pc' = "done"
         /\ grid' = g.Z_grid
         /\ UNCHANGED err

\* X, Y, Z and the interpolation of them.
PlotSurface(X, Y, Z, tie) ==
    /\ plot_in' = [X |-> X, Y |-> Y, Z |-> Z]
    /\ ShowSurface(InterpolateSurface(X, Y, Z, tie))

\* The page, lines 117-157: the grid and the plot, for either Y axis, and the
\* sidebar, which is reached when the plot is.
PagePlot ==
    /\ pipeline = "page" /\ pc = "built"
    /\ \E y_axis_option \in {"moneyness", "strike"}, tie \in {"lo", "hi"} :
          PlotSurface(Column(options_df, "timeToExpiration"),
                      Column(options_df, y_axis_option),
                      Column(options_df, "impliedVolatility"), tie)
    /\ stats' = IF pc' = "done"
                 THEN { [label |-> "Number of Options Used", value |-> Fin(Len(options_df))],
                        [label |-> "Average IV",
                         value |-> nanmean(Column(options_df, "impliedVolatility"))] }
                 ELSE stats
    /\ UNCHANGED << pipeline, chain, strike_pct, options_df, solver_in, solver_out,
                    msg, db, args, ret >>

\* calculate_iv_surface, lines 47-93 (its rows name the date expiration_date).
CalcNormalize ==
    /\ pipeline = "calc" /\ pc = "start"
    /\ LET exp_dates   == FutureExpirations(Expirations(chain))
           option_data == CollectCalls(chain, exp_dates)
           filtered    == StrikeFilter(WithTimes(option_data), spot_price,
                                       strike_pct[1], strike_pct[2])
       IN  IF exp_dates = << >>
           THEN /\ Raise("No valid expiration dates found (more than 7 days ahead).")
                /\ UNCHANGED options_df
           ELSE IF option_data = << >>
           THEN /\ Raise("No valid options found after filtering bids/asks.")
                /\ UNCHANGED options_df
           ELSE IF filtered = << >>
           THEN /\ Raise("No options left after applying strike price filter.")
                /\ options_df' = filtered
           ELSE /\ pc' = "normalized"
                /\ options_df' = filtered
                /\ UNCHANGED << msg, err >>
    /\ UNCHANGED << pipeline, chain, strike_pct, solver_in, solver_out, plot_in,
                    stats, grid, db, args, ret >>

\* calculate_iv_surface, lines 95-116: the solves, inline, and the return.
CalcBuild ==
    /\ pipeline = "calc" /\ pc = "normalized"
    /\ solver_in' = options_df
    /\ solver_out' = SolverReturns(options_df, spot_price, risk_free_rate, dividend_yield)
    /\ options_df' = calc_iv_columns(options_df, spot_price, risk_free_rate, dividend_yield)
    /\ IF options_df' = << >>
       THEN Raise("No valid IVs computed.")
       ELSE /\ pc' = "returned"
            /\ UNCHANGED << err, msg >>
    /\ UNCHANGED << pipeline, chain, strike_pct, plot_in, stats, grid, db, args, ret >>

\* fetch_and_save_snapshots, lines 19-45, for one ticker: collection; a ticker
\* without option data is skipped.
SnapshotCollect ==
    /\ pipeline = "snapshot" /\ pc = "start"
    /\ LET exp_dates   == FutureExpirations(Expirations(chain))
           option_data == CollectCalls(chain, exp_dates)
       IN  IF option_data = << >>
           THEN /\ pc' = "skipped"
                /\ UNCHANGED options_df
           ELSE /\ pc' = "normalized"
                /\ options_df' = WithTimes(option_data)
    /\ UNCHANGED << pipeline, chain, strike_pct, solver_in, solver_out, plot_in,
                    stats, msg, err, grid, db, args, ret >>

\* fetch_and_save_snapshots, lines 47-50.
SnapshotBuild ==
    /\ pipeline = "snapshot" /\ pc = "normalized"
    /\ solver_in' = options_df
    /\ solver_out' = SolverReturns(options_df, spot_price, risk_free_rate, dividend_yield)
    /\ options_df' = compute_iv_surface(options_df, spot_price, risk_free_rate, dividend_yield)
    /\ pc' = "built"
    /\ UNCHANGED << pipeline, chain, strike_pct, plot_in, stats, msg, err, grid,
                    db, args, ret >>

\* fetch_and_save_snapshots, lines 52-53: save_iv_surface_snapshot, which ends
\* on st.success.
SnapshotSave ==
    /\ pipeline = "snapshot" /\ pc = "built"
    /\ options_df' = Stamped(options_df, "SPY", "t1")
    /\ db' = save_iv_surface_snapshot(db, options_df')
    /\ msg' = "Snapshot saved."
    /\ pc' = "done"
    /\ UNCHANGED << pipeline, chain, strike_pct, solver_in, solver_out, plot_in,
                    stats, err, grid, args, ret >>

\* 1_Historical_Viewer.py, lines 20-54, on the frame loaded.
ViewerShow(df, tie) ==
    IF df = << >>
    THEN /\ pc' = "stopped"
         /\ msg' = "No data found."
         /\ UNCHANGED << plot_in, err, grid >>
    ELSE /\ PlotSurface(Column(df, "timeToExpiration"), Column(df, "moneyness"),
                        Column(df, "impliedVolatility"), tie)
         /\ UNCHANGED msg

\* 1_Historical_Viewer.py, opened once the snapshot job has run: without a
\* ticker in the table it stops at line 14, else it loads the snapshot and
\* interpolates it.
ViewerLoad ==
    /\ pipeline = "snapshot" /\ pc = "done"
    /\ pipeline' = "viewer"
    /\ IF db = << >>
       THEN /\ pc' = "stopped"
            /\ msg' = "No snapshots available yet."
            /\ UNCHANGED << plot_in, err, grid >>
       ELSE \E tie \in {"lo", "hi"} :
               ViewerShow(load_iv_surface_snapshot(db, "SPY", "t1"), tie)
    /\ UNCHANGED << chain, strike_pct, options_df, solver_in, solver_out, stats,
                    db, args, ret >>

\* streamlit_app.py, lines 44-64: the loop over the expirations and the concat.
\* apply on a frame without rows hands back a frame, which pandas may refuse to
\* assign to one column (ValueError), depending on its version; pd.concat of
\* no frame raises ValueError.
LegacyLoop ==
    /\ pipeline = "legacy" /\ pc = "start"
    /\ LET expirations == FirstTen(Expirations(chain))
           some_empty  == \E i \in DOMAIN expirations :
                              Liquid(Calls(chain, expirations[i])) = << >>
       IN  \E empty_apply_raises \in BOOLEAN :
              IF expirations = << >> \/ (some_empty /\ empty_apply_raises)
              THEN /\ pc' = "crashed"
                   /\ err' = "ValueError"
                   /\ UNCHANGED << options_df, solver_in, solver_out >>
              ELSE /\ pc' = "built"
                   /\ solver_in' = LegacyRows(chain, expirations)
                   /\ solver_out' = SolverReturns(solver_in', spot_price, risk_free_rate, 0)
                   /\ options_df' = legacy_iv_data(solver_in', spot_price, risk_free_rate)
                   /\ UNCHANGED err
    /\ UNCHANGED << pipeline, chain, strike_pct, plot_in, stats, msg, grid, db,
                    args, ret >>

\* filtered_df["impliedVolatility"].values * 100
PercentValues(Z) == [i \in 1..Len(Z) |-> Times(Z[i], 100)]

\* streamlit_app.py, lines 67-132: the sliders at their defaults (they keep
\* every row) and the plot.  st.slider raises on a range of nan, which the
\* empty frame gives.
LegacyPlot ==
    /\ pipeline = "legacy" /\ pc = "built"
    /\ \E moneyness_toggle \in {"strike", "moneyness"},
          plot_type \in {"3D Scatter", "3D Surface (Interpolated)"},
          tie \in {"lo", "hi"} :
          IF options_df = << >>
          THEN /\ pc' = "crashed"
               /\ err' = "StreamlitAPIException"
               /\ UNCHANGED << grid, plot_in >>
          ELSE IF plot_type = "3D Scatter"
          THEN /\ pc' = "done"
               /\ UNCHANGED << err, grid, plot_in >>
          ELSE PlotSurface(Column(options_df, "timeToExpiration"),
                           Column(options_df, moneyness_toggle),
                           PercentValues(Column(options_df, "impliedVolatility")), tie)
    /\ UNCHANGED << pipeline, chain, strike_pct, options_df, solver_in, solver_out,
                    stats, msg, db, args, ret >>

Next ==
    \/ PageNormalize
    \/ PageBuild
    \/ PagePlot
    \/ CalcNormalize
    \/ CalcBuild
    \/ SnapshotCollect
    \/ SnapshotBuild
    \/ SnapshotSave
    \/ ViewerLoad
    \/ LegacyLoop
    \/ LegacyPlot

Spec == Init /\ [][Next]_vars

(***************************************************************************)
(* Claims about the solver and the pricer.                                 *)
(***************************************************************************)

\* C1: a call of implied_volatility with T <= 0 or price <= 0 returns NaN
\* (NoConvergence) and neither brentq nor the pricer is invoked in it.
C1_EarlyExit ==
    (pc = "returned" /\ (args.T <= 0 \/ args.price <= 0))
        => /\ IsNaN(ret.iv)
           /\ ret.raised = "none"
           /\ ~ret.rootfinder
           /\ ret.sigmas = << >>

C1_Witness ==
    /\ pc = "returned"
    /\ args.T = 0
    /\ args.price > 0
    /\ IsNaN(ret.iv)
    /\ ~ret.rootfinder

\* f(1e-6) and f(5.0) have the same sign.
SameSign(a) ==
    LET flo == objective(a, SigLo)
        fhi == objective(a, SigHi)
    IN  IsFinite(flo) /\ IsFinite(fhi) /\ Sign(flo.v) * Sign(fhi.v) > 0

\* The root-finder exhausts its iteration budget.
BudgetExhausted(a) ==
    brentq(a, SigLo, SigHi).status = "RuntimeError"

\* C2: with T > 0 and price > 0, when f(1e-6) and f(5.0) have the same sign or
\* the root-finder exhausts its budget, implied_volatility returns NaN as a
\* value: no exception leaves it and it returns no substituted volatility.
C2_FailureIsNaN ==
    (pc = "returned" /\ args.T > 0 /\ args.price > 0
       /\ (SameSign(args) \/ BudgetExhausted(args)))
        => (ret.raised = "none" /\ IsNaN(ret.iv))

C2_Witness ==
    /\ pc = "returned"
    /\ args.T > 0
    /\ args.price > 0
    /\ SameSign(args)
    /\ ret.rootfinder
    /\ IsNaN(ret.iv)

\* C10: a pricer call with T <= 0 (S, K, sigma > 0) never yields a finite
\* price: it raises ValueError or returns a non-finite value.
C10_NoFinitePriceAtExpiry ==
    (pc = "returned" /\ args.T <= 0 /\ args.S > 0 /\ args.K > 0 /\ args.sigma > 0)
        => (ret.raised = "ValueError" \/ ~IsFinite(ret.value))

(***************************************************************************)
(* Claims about the surface builder, the normalization and the grid.       *)
(***************************************************************************)

\* The builder has run on a non-empty set of options.
BuilderRan == solver_in # << >>

\* The name of the IV column of the frame of the run.
IVName == IF pipeline = "calc" THEN "implied_volatility" ELSE "impliedVolatility"

\* The builders return percent, streamlit_app.py keeps the fraction.
IVScale == IF pipeline = "legacy" THEN 1 ELSE 100

\* The rows of the solver's input on which it converged, in order.
ConvergedRows ==
    SelectSeq([i \in 1..Len(solver_in) |-> i], LAMBDA i : ~IsNaN(solver_out[i]))

\* The rows on which the solver returned NoConvergence.
DroppedRows == { i \in 1..Len(solver_in) : IsNaN(solver_out[i]) }

\* One IVPoint per converged row: its expiry, its strike and the solver's value.
PointsExpected ==
    [j \in 1..Len(ConvergedRows) |->
        << solver_in[ConvergedRows[j]].timeToExpiration,
           solver_in[ConvergedRows[j]].strike,
           Times(solver_out[ConvergedRows[j]], IVScale) >>]

PointsReturned ==
    [j \in 1..Len(options_df) |->
        << options_df[j].timeToExpiration, options_df[j].strike, options_df[j][IVName] >>]

\* C3: the builder returns exactly one point for each input option on which
\* the solver converges, none for an option on which it returns NoConvergence,
\* and no returned point carries a NaN implied volatility.
C3_OnePointPerConvergedOption ==
    BuilderRan =>
        /\ PointsReturned = PointsExpected
        /\ \A j \in 1..Len(options_df) : IsFinite(options_df[j][IVName])

C3_Witness ==
    /\ BuilderRan
    /\ DroppedRows # {}
    /\ Len(ConvergedRows) >= 2
    /\ Len(options_df) = Len(ConvergedRows)

\* The two reports of an empty surface.
NoValidIVs ==
    { "No valid IVs computed. Try adjusting filter parameters.", "No valid IVs computed." }

\* C4: when the solver converges for none of the options of a non-empty input,
\* the build fails with EmptySurface (the run reports it and stops) in the
\* page, in calculate_iv_surface and in the snapshot job; an empty point set
\* is never a normal result.
C4_EmptySurfaceFails ==
    (BuilderRan /\ pipeline \in {"page", "calc", "snapshot", "viewer"}
       /\ Len(ConvergedRows) = 0)
        => (pc \in {"stopped", "raised"} /\ msg \in NoValidIVs)

KeyOf(row) ==
    IF "contractSymbol" \in DOMAIN row THEN row.contractSymbol
    ELSE << row.expirationDate, row.strike >>

\* The options passed on to IV solving.
Fed == { KeyOf(solver_in[i]) : i \in 1..Len(solver_in) }

Quotes == { chain[i] : i \in 1..Len(chain) }

HasMarket(c) == c.bid > 0 /\ c.ask > 0
Beyond7Days(c) == c.exp > 7
InStrikeRange(c) ==
    /\ c.strike * 100 >= spot_price * strike_pct[1]
    /\ c.strike * 100 <= spot_price * strike_pct[2]

\* The run takes a strike range from its caller.
HasStrikeRange == pipeline \in {"page", "calc"}

\* The quotes the four filters of normalizeChain keep.
Eligible ==
    { << c.exp, c.strike >> : c \in { c \in Quotes :
         HasMarket(c) /\ Beyond7Days(c) /\ (HasStrikeRange => InStrikeRange(c)) } }

\* The run is past its normalization: it has fed the solver, or it has ended
\* without feeding it (a crash inside the loop of streamlit_app.py is neither).
PastNormalization ==
    /\ pc \notin {"start", "normalized"}
    /\ ~(pipeline = "legacy" /\ pc = "crashed" /\ err = "ValueError")

NoEligibleData ==
    { "No valid expiration dates found (more than 7 days ahead).",
      "No valid option data found after filtering bids/asks.",
      "No valid options found after filtering bids/asks.",
      "No options left after applying strike price filter. Adjust range.",
      "No options left after applying strike price filter." }

AllSame(s) == \A i, j \in DOMAIN s : s[i] = s[j]

\* griddata has been called.
Interpolated == plot_in.X # << >>

\* No grid has been produced.
NoGrid == DOMAIN grid = {}

\* C8: when all input points share one x (timeToExpiration) or all share one y,
\* the interpolation fails (DegenerateSurface: griddata raises QhullError,
\* which ends the run) and no grid is produced.
C8_DegenerateSurfaceFails ==
    (Interpolated /\ (AllSame(plot_in.X) \/ AllSame(plot_in.Y)))
        => (pc = "crashed" /\ err = "QhullError" /\ NoGrid)

\* Three points of one timeToExpiration and three strikes.
C8_Witness ==
    /\ pipeline = "page"
    /\ Interpolated
    /\ Len(plot_in.X) = 3
    /\ AllSame(plot_in.X)
    /\ ~AllSame(plot_in.Y)
    /\ pc = "crashed"
    /\ err = "QhullError"

\* The node n of the mesh over the bounding box of the input points.
NodeX(n) == linspace(SeqMin(plot_in.X), SeqMax(plot_in.X), n[1])
NodeY(n) == linspace(SeqMin(plot_in.Y), SeqMax(plot_in.Y), n[2])

\* The node lies in the convex hull of the input points: in a triangle of
\* three of them that are not on one line.
InHull(n) ==
    \E i, j, k \in DOMAIN plot_in.X :
        /\ Cross(plot_in.X[i], plot_in.Y[i], plot_in.X[j], plot_in.Y[j],
                 plot_in.X[k], plot_in.Y[k]) # 0
        /\ InTriangle(plot_in.X, plot_in.Y, << i, j, k >>, NodeX(n), NodeY(n))

RECURSIVE Total(_)
Total(Z) == IF Z = << >> THEN 0 ELSE Head(Z).v + Total(Tail(Z))

\* The arithmetic mean of the finite input z-values.
MeanZ ==
    Fin(Total(SelectSeq(plot_in.Z, IsFinite)) \div Len(SelectSeq(plot_in.Z, IsFinite)))

\* C9: in a grid that is produced, every node outside the convex hull of the
\* input points holds the arithmetic mean of the finite input z-values, and no
\* node is NaN.
C9_OutsideHullIsMean ==
    ~NoGrid =>
        \A n \in DOMAIN grid :
            /\ ~IsNaN(grid[n])
            /\ ~InHull(n) => grid[n] = MeanZ

\* A grid with a node outside the hull, filled with the mean, and a node in
\* the hull that holds another value.
C9_Witness ==
    /\ pipeline = "page"
    /\ ~NoGrid
    /\ \E n \in DOMAIN grid : ~InHull(n) /\ grid[n] = MeanZ /\ MeanZ.v > 0
    /\ \E n \in DOMAIN grid : InHull(n) /\ grid[n] # MeanZ

(***************************************************************************)
(* Claims about round trips, scenarios and frames.                         *)
(***************************************************************************)

\* The difference 1e-4 of two volatilities.
SigmaTol == Micro \div Unit

\* The solver returned a value within 1e-4 of the sigma the price was made of.
RecoveredSigma ==
    /\ IsFinite(ret.solve.iv)
    /\ Abs(ret.solve.iv.v - args.sigma) <= SigmaTol

SignTellsSide(f, x) ==
    /\ (x <= args.sigma - SigmaTol => f.v < 0)
    /\ (x >= args.sigma + SigmaTol => f.v > 0)

\* The price is positive and strictly increasing in sigma as far as the solver
\* sees it: every volatility it tries that is 1e-4 or more below sigma prices
\* lower, every one 1e-4 or more above prices higher.
PriceTellsSigma ==
    /\ IsFinite(ret.price)
    /\ ret.price.v > 0
    /\ \A k \in DOMAIN ret.solve.sigmas :
          SignTellsSide(objective(Closure(ret.price.v, args.S, args.K, args.T, args.r, args.q),
                                  ret.solve.sigmas[k]),
                        ret.solve.sigmas[k])

Scenario ==
    /\ pc = "returned"
    /\ args = [df |-> WithTimes(<< OptionRow(Quote(30, 100, 990, 1010)) >>),
               spot |-> 100 * 1000, r |-> 200, q |-> 0]

\* The only point of the result has mid 10.0, moneyness 1.0 and an implied
\* volatility between lo and hi percent.
ScenarioPoint(lo, hi) ==
    /\ Len(ret) = 1
    /\ ret[1].mid = 10 * 1000
    /\ ret[1].moneyness = Unit
    /\ IsFinite(ret[1].impliedVolatility)
    /\ ret[1].impliedVolatility.v >= lo * Micro
    /\ ret[1].impliedVolatility.v <= hi * Micro

\* C12 as stated: the scenario gives one point with mid 10.0, moneyness 1.0 and
\* an implied volatility in the band of 15 to 35 percent.
C12_ScenarioBand15to35 ==
    Scenario => ScenarioPoint(15, 35)

\* C12, amended: the scenario gives one point with mid 10.0, moneyness 1.0 and
\* an implied volatility in the band of 85 to 90 percent.
C12_ScenarioBand85to90 ==
    Scenario => ScenarioPoint(85, 90)

C12_Witness ==
    /\ Scenario
    /\ ScenarioPoint(85, 90)

\* A step in which a script calls compute_iv_surface on its frame options_df.
BuilderCall ==
    /\ pipeline \in {"page", "snapshot"}
    /\ solver_in = << >>
    /\ solver_in' # << >>

\* C13: a call of compute_iv_surface leaves the frame it is given as it was:
\* no row of the caller's frame goes and no column is added to it.
C13_BuilderLeavesInputAlone ==
    [][BuilderCall => options_df' = options_df]_vars

\* What implied_volatility did on a row the run handed to it.
SolveOf(row) == SolveRow(row, spot_price, risk_free_rate, 0)

\* If the solve s of the row called the pricer, it called it with T > 0,
\* S > 0, K > 0 and every sigma > 0.
PricedInDomain(row, s) ==
    s.rootfinder =>
        /\ row.timeToExpiration > 0
        /\ spot_price > 0
        /\ row.strike > 0
        /\ s.sigmas # << >>
        /\ \A k \in DOMAIN s.sigmas : s.sigmas[k] > 0

\* C14: in every run, on every row handed to the solver, the pricer is called
\* only with T > 0, sigma > 0, S > 0 and K > 0.
C14_PricerOnlyInDomain ==
    \A i \in DOMAIN solver_in : PricedInDomain(solver_in[i], SolveOf(solver_in[i]))

\* The pricer was called on the row.
Priced(s) == s.rootfinder /\ s.sigmas # << >>

\* A run whose solver got a row with T <= 0, for which the pricer was not
\* called, and a row for which it was.
C14_Witness ==
    /\ \E i \in DOMAIN solver_in : /\ solver_in[i].timeToExpiration <= 0
                                   /\ ~Priced(SolveOf(solver_in[i]))
    /\ \E i \in DOMAIN solver_in : /\ solver_in[i].timeToExpiration > 0
                                   /\ Priced(SolveOf(solver_in[i]))

\* compute_iv_surface with the parameters of the direct call.
SurfaceOf(df) == compute_iv_surface(df, args.spot, args.r, args.q)

\* The rows of a frame, without their order.
Points(df) == { df[i] : i \in DOMAIN df }

\* df in the opposite order.
Reversed(df) == [i \in 1..Len(df) |-> df[Len(df) + 1 - i]]

\* The surface of the whole frame is the surface of its first k rows followed
\* by the surface of the rest.
SplitsAt(k) ==
    ret = SurfaceOf(SubSeq(args.df, 1, k)) \o SurfaceOf(SubSeq(args.df, k + 1, Len(args.df)))

\* C15: the surface of a frame is the union of the surfaces of its parts,
\* however the frame is split, and the points do not depend on the order of
\* the rows.
C15_SurfaceOfUnion ==
    pc = "returned" =>
        /\ \A k \in 1..(Len(args.df) - 1) : SplitsAt(k)
        /\ Points(SurfaceOf(Reversed(args.df))) = Points(ret)

\* The surface of a frame whose first option has no solution and whose last
\* option has another strike.
C15_Witness ==
    /\ pc = "returned"
    /\ Len(args.df) = MaxRows
    /\ Len(ret) = MaxRows - 1
    /\ args.df[1].strike # args.df[MaxRows].strike
    /\ IsNaN(SolveRow(args.df[1], args.spot, args.r, args.q).iv)
    /\ SplitsAt(1)

\* The frame of the run holds the points of a surface.
HasSurface ==
    /\ BuilderRan
    /\ options_df # << >>
    /\ \A i \in DOMAIN options_df : IVName \in DOMAIN options_df[i]

\* C16: every value the solver returned lies in [1e-6, 5.0], and every point of
\* a built surface has an implied volatility above 0 and at most 500 percent
\* (at most 5.0 in streamlit_app.py, which keeps the fraction).
C16_VolatilityInBracket ==
    /\ \A i \in DOMAIN solver_out :
          ~IsNaN(solver_out[i]) =>
              /\ IsFinite(solver_out[i])
              /\ solver_out[i].v >= SigLo
              /\ solver_out[i].v <= SigHi
    /\ HasSurface =>
          \A i \in DOMAIN options_df :
              /\ IsFinite(options_df[i][IVName])
              /\ options_df[i][IVName].v > 0
              /\ options_df[i][IVName].v <= IVScale * SigHi

\* A surface of the page with two points, next to a solve without a solution.
C16_Witness ==
    /\ pipeline = "page"
    /\ HasSurface
    /\ Len(options_df) = 2
    /\ \E i \in DOMAIN solver_out : IsNaN(solver_out[i])
    /\ \A i \in DOMAIN options_df : options_df[i].impliedVolatility.v > 100 * SigLo

\* The keys of the store and what a load of a key returns from a table.
Keys == Tickers \X Timestamps
Loaded(table, k) == load_iv_surface_snapshot(table, k[1], k[2])

\* The key of the call in args.
CallKey(a) == << a.ticker, a.timestamp >>

\* A save keeps every earlier row in its place, adds the rows of its frame to
\* what a load of its key returns, and leaves the loads of other keys alone.
SaveAppendsUnderKey ==
    /\ Len(db') >= Len(db)
    /\ SubSeq(db', 1, Len(db)) = db
    /\ \A k \in Keys :
          Loaded(db', k) = IF k = CallKey(args')
                           THEN Loaded(db, k) \o to_sql(args'.df)
                           ELSE Loaded(db, k)

\* A load leaves the table alone and returns the rows of the table stored
\* under its key, all of them and no others, in the order of their saves.
LoadReturnsKey ==
    /\ db' = db
    /\ \A i \in DOMAIN ret' : CallKey(ret'[i]) = CallKey(args')
    /\ ret' = SelectSeq(db, LAMBDA row : CallKey(row) = CallKey(args'))

\* C17: over any sequence of saves and loads, a save only appends (earlier
\* rows stay, the rows go to its key, other keys load as before) and a load
\* returns exactly the rows saved under its key.
C17_StoreAppendsByKey ==
    [][/\ (pc' = "saved" => SaveAppendsUnderKey)
       /\ (pc' = "loaded" => LoadReturnsKey)]_vars

\* A load that returned the rows of two saves under its key, between which a
\* save under another key put a row.
C17_Witness ==
    /\ pc = "loaded"
    /\ Len(db) = 3
    /\ CallKey(db[2]) # CallKey(db[1])
    /\ ret = << db[1], db[3] >>
    /\ CallKey(args) = CallKey(db[1])

====
